---- MODULE Spec2Model ----
(***************************************************************************)
(* Model of src/pythonassignment/attendance_analyzer.py: the attendance    *)
(* store (data/attendance.csv), the record normalizer clean_row, the       *)
(* store operations append_record / read_all_records / save_cleaned, the   *)
(* deduplicator and the aggregator analyze.                                *)
(*                                                                         *)
(* A Python str is a sequence of one-character strings, so that strip,     *)
(* upper, strptime, isoformat and string comparison are computed and not   *)
(* assumed.  A percentage is an integer number of hundredths of a percent  *)
(* (75.00 is 7500).                                                        *)
(***************************************************************************)
EXTENDS Integers, Sequences, FiniteSets, TLC

VARIABLES store, input, out

vars == <<store, input, out>>

(***************************************************************************)
(* Bounds of the model.                                                    *)
(***************************************************************************)
\* most data rows the store file holds
MaxRows == 3
\* most records of an input sequence handed to deduplicate_records / analyze
MaxLen == 3
\* most records of an input sequence about one student (four dates)
PctLen == 4

(***************************************************************************)
(* Characters and strings.                                                 *)
(***************************************************************************)
Digits == <<"0", "1", "2", "3", "4", "5", "6", "7", "8", "9">>

LowerCase == <<"a", "b", "c", "d", "e", "f", "g", "h", "i", "j", "k", "l", "m",
               "n", "o", "p", "q", "r", "s", "t", "u", "v", "w", "x", "y", "z">>

UpperCase == <<"A", "B", "C", "D", "E", "F", "G", "H", "I", "J", "K", "L", "M",
               "N", "O", "P", "Q", "R", "S", "T", "U", "V", "W", "X", "Y", "Z">>

\* the characters of the model in code-point order: ' ' < '-' < digits < upper < lower
CodePoints == <<" ", "-">> \o Digits \o UpperCase \o LowerCase

IndexOf(c, seq) == CHOOSE i \in 1..Len(seq) : seq[i] = c

IsIn(c, seq) == \E i \in 1..Len(seq) : seq[i] = c

IsDigit(c) == IsIn(c, Digits)

DigitVal(c) == IndexOf(c, Digits) - 1

IsSpace(c) == c = " "

\* str.upper() of one character
UpperChar(c) == IF IsIn(c, LowerCase) THEN UpperCase[IndexOf(c, LowerCase)] ELSE c

\* str.upper()
Upper(s) == [i \in 1..Len(s) |-> UpperChar(s[i])]

RECURSIVE LStrip(_)
LStrip(s) == IF s # <<>> /\ IsSpace(Head(s)) THEN LStrip(Tail(s)) ELSE s

RECURSIVE RStrip(_)
RStrip(s) ==
  IF s # <<>> /\ IsSpace(s[Len(s)]) THEN RStrip(SubSeq(s, 1, Len(s) - 1)) ELSE s

\* str.strip()
Strip(s) == RStrip(LStrip(s))

\* str(None)
NoneStr == <<"N", "o", "n", "e">>

\* Python's < on str: by code point, a proper prefix first
RECURSIVE StrLess(_, _)
StrLess(a, b) ==
  IF b = <<>> THEN FALSE
  ELSE IF a = <<>> THEN TRUE
  ELSE IF Head(a) = Head(b) THEN StrLess(Tail(a), Tail(b))
  ELSE IndexOf(Head(a), CodePoints) < IndexOf(Head(b), CodePoints)

(***************************************************************************)
(* datetime.strptime(date_s, '%Y-%m-%d').date() and date.isoformat().      *)
(***************************************************************************)
DATE_FORMAT == <<"%Y", "-", "%m", "-", "%d">>

At(s, i) == IF i >= 1 /\ i <= Len(s) THEN s[i] ELSE "<end>"

\* the lengths, in the order the regular expression tries them, of the
\* alternatives of a directive that match s at position i
DirectiveAlts(d, s, i) ==
  IF d = "%Y" THEN
    IF \A k \in 0..3 : IsDigit(At(s, i + k)) THEN <<4>> ELSE <<>>
  ELSE IF d = "%m" THEN
    \* 1[0-2] | 0[1-9] | [1-9]
    (IF At(s, i) = "1" /\ At(s, i + 1) \in {"0", "1", "2"} THEN <<2>> ELSE <<>>)
    \o (IF At(s, i) = "0" /\ IsDigit(At(s, i + 1)) /\ At(s, i + 1) # "0" THEN <<2>> ELSE <<>>)
    \o (IF IsDigit(At(s, i)) /\ At(s, i) # "0" THEN <<1>> ELSE <<>>)
  ELSE IF d = "%d" THEN
    \* 3[0-1] | [1-2]\d | 0[1-9] | [1-9] | ' '[1-9]
    (IF At(s, i) = "3" /\ At(s, i + 1) \in {"0", "1"} THEN <<2>> ELSE <<>>)
    \o (IF At(s, i) \in {"1", "2"} /\ IsDigit(At(s, i + 1)) THEN <<2>> ELSE <<>>)
    \o (IF At(s, i) = "0" /\ IsDigit(At(s, i + 1)) /\ At(s, i + 1) # "0" THEN <<2>> ELSE <<>>)
    \o (IF IsDigit(At(s, i)) /\ At(s, i) # "0" THEN <<1>> ELSE <<>>)
    \o (IF At(s, i) = " " /\ IsDigit(At(s, i + 1)) /\ At(s, i + 1) # "0" THEN <<2>> ELSE <<>>)
  ELSE
    \* a literal character of the format
    IF At(s, i) = d THEN <<1>> ELSE <<>>

\* re.match of the compiled format at position i from format item f on: the
\* first match in backtracking order, [ok, groups, end]
RECURSIVE RegexMatch(_, _, _)
RECURSIVE TryAlts(_, _, _, _)
RegexMatch(f, s, i) ==
  IF f > Len(DATE_FORMAT) THEN [ok |-> TRUE, groups |-> <<>>, end |-> i]
  ELSE TryAlts(DirectiveAlts(DATE_FORMAT[f], s, i), f, s, i)

TryAlts(alts, f, s, i) ==
  IF alts = <<>> THEN [ok |-> FALSE, groups |-> <<>>, end |-> i]
  ELSE LET rest == RegexMatch(f + 1, s, i + Head(alts))
       IN  IF ~rest.ok THEN TryAlts(Tail(alts), f, s, i)
           ELSE [ok |-> TRUE,
                 groups |-> <<SubSeq(s, i, i + Head(alts) - 1)>> \o rest.groups,
                 end |-> rest.end]

\* int() of a matched group (digits, or a space and a digit)
RECURSIVE IntOf(_)
IntOf(s) ==
  IF s = <<>> THEN 0
  ELSE IF s[Len(s)] = " " THEN IntOf(SubSeq(s, 1, Len(s) - 1))
  ELSE 10 * IntOf(SubSeq(s, 1, Len(s) - 1)) + DigitVal(s[Len(s)])

IsLeap(y) == y % 4 = 0 /\ (y % 100 # 0 \/ y % 400 = 0)

DaysInMonth(y, m) ==
  IF m = 2 THEN (IF IsLeap(y) THEN 29 ELSE 28)
  ELSE IF m \in {4, 6, 9, 11} THEN 30 ELSE 31

\* IsDate without the length of the month
IsDateAnyMonthLength(y, m, d) ==
  /\ y >= 1 /\ y <= 9999
  /\ m >= 1 /\ m <= 12
  /\ d >= 1 /\ d <= 31

\* datetime.date(y, m, d) accepts
IsDate(y, m, d) ==
  /\ y >= 1 /\ y <= 9999
  /\ m >= 1 /\ m <= 12
  /\ d >= 1 /\ d <= DaysInMonth(y, m)

\* datetime.strptime(s, DATE_FORMAT).date(): [ok, y, m, d]
StrpTime(s) ==
  LET g == RegexMatch(1, s, 1)
  IN  IF ~g.ok THEN [ok |-> FALSE, y |-> 0, m |-> 0, d |-> 0]
      \* "unconverted data remains"
      ELSE IF g.end # Len(s) + 1 THEN [ok |-> FALSE, y |-> 0, m |-> 0, d |-> 0]
      ELSE LET y == IntOf(g.groups[1])
               m == IntOf(g.groups[3])
               d == IntOf(g.groups[5])
           IN  [ok |-> IsDate(y, m, d), y |-> y, m |-> m, d |-> d]

\* '%0<w>d' % n
RECURSIVE ZeroPad(_, _)
ZeroPad(n, w) ==
  IF w = 0 THEN <<>> ELSE ZeroPad(n \div 10, w - 1) \o <<Digits[(n % 10) + 1]>>

\* date.isoformat()
IsoFormat(y, m, d) == ZeroPad(y, 4) \o <<"-">> \o ZeroPad(m, 2) \o <<"-">> \o ZeroPad(d, 2)

(***************************************************************************)
(* The store file data/attendance.csv: a sequence of lines, each line the  *)
(* sequence of its fields as csv.writer wrote them and csv.reader returns  *)
(* them (quoting round-trips every field).  Line 1 is the header.          *)
(***************************************************************************)
K_student_id == <<"s", "t", "u", "d", "e", "n", "t", "_", "i", "d">>

K_student_name == <<"s", "t", "u", "d", "e", "n", "t", "_", "n", "a", "m", "e">>

K_date == <<"d", "a", "t", "e">>

K_status == <<"s", "t", "a", "t", "u", "s">>

\* the header row written at lines 25 and 119
Header == <<K_student_id, K_student_name, K_date, K_status>>

\* Python's None (csv.DictReader's restval for a short row)
None == <<"<None>">>

\* str(x) of a field value
Str(x) == IF x = None THEN NoneStr ELSE x

\* row.get(key, '') on the dict DictReader builds as dict(zip(fieldnames, line)),
\* short rows filled with restval None, surplus fields kept under the key None
DictGet(fieldnames, line, key) ==
  LET cols == {k \in 1..Len(fieldnames) : fieldnames[k] = key}
      \* a repeated field name: the last column of that name wins
      last == CHOOSE k \in cols : \A j \in cols : j <= k
  IN  IF cols = {} THEN <<>>
      ELSE IF last > Len(line) THEN None
      ELSE line[last]

\* the rows csv.DictReader yields: the first line is fieldnames, blank lines
\* (no fields) are skipped, each other line becomes a dict
DictReader(file) ==
  IF file = <<>> THEN <<>>
  ELSE LET fieldnames == file[1]
           body == SelectSeq(Tail(file), LAMBDA line : line # <<>>)
       IN  [i \in 1..Len(body) |->
              [student_id   |-> DictGet(fieldnames, body[i], K_student_id),
               student_name |-> DictGet(fieldnames, body[i], K_student_name),
               date         |-> DictGet(fieldnames, body[i], K_date),
               status       |-> DictGet(fieldnames, body[i], K_status)]]

\* writer.writerow([r['student_id'], r['student_name'], r['date'], r['status']])
WriteRow(r) == <<r.student_id, r.student_name, r.date, r.status>>

(***************************************************************************)
(* clean_row                                                               *)
(***************************************************************************)
KnownStatus == {<<"P">>, <<"A">>, <<"L">>, <<"H">>}

NoRecord == [student_id |-> <<>>, student_name |-> <<>>, date |-> <<>>, status |-> <<>>]

\* lines 35-36: a status that is not a known code becomes its first character
CanonStatus(status) ==
  IF status # <<>> /\ status \notin KnownStatus THEN <<status[1]>> ELSE status

\* clean_row(row): [ok, rec]; ok = FALSE is an exception raised (ValueError
\* for an invalid date, AttributeError for None.strip())
CleanRow(row) ==
  LET sid == Strip(Str(row.student_id))
      status == CanonStatus(Upper(Strip(Str(row.status))))
  IN  IF row.student_name = None \/ row.date = None
      THEN [ok |-> FALSE, rec |-> NoRecord]
      ELSE LET name == Strip(row.student_name)
               date_s == Strip(row.date)
               d == StrpTime(date_s)
           IN  IF ~d.ok THEN [ok |-> FALSE, rec |-> NoRecord]
               ELSE [ok |-> TRUE,
                     rec |-> [student_id |-> sid, student_name |-> name,
                              date |-> IsoFormat(d.y, d.m, d.d), status |-> status]]

(***************************************************************************)
(* read_all_records, deduplicate_records, save_cleaned                     *)
(***************************************************************************)
\* ReadLoop without the try: the first bad row ends the read
RECURSIVE ReadLoopAbort(_, _, _)
ReadLoopAbort(rows, records, diags) ==
  IF rows = <<>> THEN [records |-> records, diags |-> diags]
  ELSE LET c == CleanRow(Head(rows))
       IN  IF c.ok THEN ReadLoopAbort(Tail(rows), Append(records, c.rec), diags)
           ELSE [records |-> records, diags |-> diags + 1]

\* the loop of lines 64-70 over the rows left, with the records appended so
\* far and the number of 'Skipping invalid row' diagnostics printed so far
RECURSIVE ReadLoop(_, _, _)
ReadLoop(rows, records, diags) ==
  IF rows = <<>> THEN [records |-> records, diags |-> diags]
  ELSE LET c == CleanRow(Head(rows))
       IN  IF c.ok THEN ReadLoop(Tail(rows), Append(records, c.rec), diags)
           ELSE ReadLoop(Tail(rows), records, diags + 1)

\* read_all_records() on the file: [records, diags]
ReadAllRecords(file) == ReadLoop(DictReader(file), <<>>, 0)

DedupKey(r) == <<r.student_id, r.date>>

\* DedupLoop without seen.add(key)
RECURSIVE DedupLoopNoSeen(_, _, _)
DedupLoopNoSeen(records, seen, outp) ==
  IF records = <<>> THEN outp
  ELSE LET r == Head(records)
           key == DedupKey(r)
       IN  IF key \in seen THEN DedupLoopNoSeen(Tail(records), seen, outp)
           ELSE DedupLoopNoSeen(Tail(records), seen, Append(outp, r))

\* the loop of lines 77-82
RECURSIVE DedupLoop(_, _, _)
DedupLoop(records, seen, outp) ==
  IF records = <<>> THEN outp
  ELSE LET r == Head(records)
           key == DedupKey(r)
       IN  IF key \in seen THEN DedupLoop(Tail(records), seen, outp)
           ELSE DedupLoop(Tail(records), seen \cup {key}, Append(outp, r))

\* deduplicate_records through a dict keyed by (student_id, date): a later
\* record of a key replaces the earlier one
DedupLastWins(records) ==
  LET firsts == {i \in 1..Len(records) :
                   \A j \in 1..(i - 1) : DedupKey(records[j]) # DedupKey(records[i])}
      LastOf(i) == CHOOSE j \in 1..Len(records) :
                     /\ DedupKey(records[j]) = DedupKey(records[i])
                     /\ \A k \in (j + 1)..Len(records) :
                          DedupKey(records[k]) # DedupKey(records[i])
      Kth(k) == CHOOSE i \in firsts : Cardinality({j \in firsts : j <= i}) = k
  IN  [k \in 1..Cardinality(firsts) |-> records[LastOf(Kth(k))]]

\* deduplicate_records(records)
DeduplicateRecords(records) == DedupLoop(records, {}, <<>>)

\* save_cleaned without line 119
SaveCleanedNoHeader(records) ==
  LET recs == DeduplicateRecords(records)
  IN  [i \in 1..Len(recs) |-> WriteRow(recs[i])]

\* save_cleaned(records): the file it writes
SaveCleaned(records) ==
  LET recs == DeduplicateRecords(records)
  IN  <<Header>> \o [i \in 1..Len(recs) |-> WriteRow(recs[i])]

(***************************************************************************)
(* analyze                                                                 *)
(***************************************************************************)
\* defaulter_threshold=75, in hundredths of a percent
DefaultThreshold == 7500

\* round(present / total * 100, 2) if total else 0, in hundredths of a percent.
\* round() rounds a tie to the even hundredth; a tie needs total to be a
\* multiple of 32, and below that the float quotient rounds as the exact one.
Percentage(present, total) ==
  IF total = 0 THEN 0
  ELSE LET q == (10000 * present) \div total
           r == (10000 * present) % total
       IN  IF 2 * r < total THEN q
           ELSE IF 2 * r > total THEN q + 1
           ELSE IF q % 2 = 0 THEN q ELSE q + 1

\* students[sid] of the defaultdict; entries is the dict in insertion order
HasKey(entries, k) == \E i \in 1..Len(entries) : entries[i].key = k

KeyIndex(entries, k) == CHOOSE i \in 1..Len(entries) : entries[i].key = k

\* StudentsStep with the name assigned from every record that has one
StudentsStepOverwrite(students, r) ==
  LET withKey == IF HasKey(students, r.student_id) THEN students
                 ELSE Append(students, [key |-> r.student_id, name |-> <<>>,
                                        present |-> 0, total |-> 0])
      i == KeyIndex(withKey, r.student_id)
      v == withKey[i]
  IN  [withKey EXCEPT ![i] =
         [key |-> v.key,
          name |-> IF r.student_name # <<>> THEN r.student_name ELSE v.name,
          present |-> IF r.status = <<"P">> THEN v.present + 1 ELSE v.present,
          total |-> v.total + 1]]

\* lines 92-94 and 96-97 on the students dict
StudentsStep(students, r) ==
  LET withKey == IF HasKey(students, r.student_id) THEN students
                 ELSE Append(students, [key |-> r.student_id, name |-> <<>>,
                                        present |-> 0, total |-> 0])
      i == KeyIndex(withKey, r.student_id)
      v == withKey[i]
  IN  [withKey EXCEPT ![i] =
         [key |-> v.key,
          name |-> IF v.name # <<>> THEN v.name ELSE r.student_name,
          present |-> IF r.status = <<"P">> THEN v.present + 1 ELSE v.present,
          total |-> v.total + 1]]

\* lines 95-98 on the daily dict
DailyStep(daily, r) ==
  LET withKey == IF HasKey(daily, r.date) THEN daily
                 ELSE Append(daily, [key |-> r.date, present |-> 0, total |-> 0])
      i == KeyIndex(withKey, r.date)
      v == withKey[i]
  IN  [withKey EXCEPT ![i] =
         [key |-> v.key,
          present |-> IF r.status = <<"P">> THEN v.present + 1 ELSE v.present,
          total |-> v.total + 1]]

\* the loop of lines 91-98: [students, daily]
RECURSIVE AccumulateLoop(_, _, _)
AccumulateLoop(records, students, daily) ==
  IF records = <<>> THEN [students |-> students, daily |-> daily]
  ELSE AccumulateLoop(Tail(records), StudentsStep(students, Head(records)),
                      DailyStep(daily, Head(records)))

\* sorted(daily.items()): the keys are distinct, so the order is that of the
\* date strings
RECURSIVE InsertSorted(_, _)
InsertSorted(sorted, e) ==
  IF sorted = <<>> THEN <<e>>
  ELSE IF StrLess(e.key, Head(sorted).key) THEN <<e>> \o sorted
  ELSE <<Head(sorted)>> \o InsertSorted(Tail(sorted), e)

\* daily.items() without sorted()
UnsortedItems(entries) == entries

RECURSIVE SortedItems(_)
SortedItems(entries) ==
  IF entries = <<>> THEN <<>>
  ELSE InsertSorted(SortedItems(SubSeq(entries, 1, Len(entries) - 1)),
                    entries[Len(entries)])

\* line 105 with <= for <
IsDefaulterInclusive(r, defaulter_threshold) == r.percentage <= defaulter_threshold

\* line 105
IsDefaulter(r, defaulter_threshold) == r.percentage < defaulter_threshold

\* lines 89-111 of analyze on the records line 88 leaves
Summarize(records, defaulter_threshold) ==
  LET acc == AccumulateLoop(records, <<>>, <<>>)
      result == [i \in 1..Len(acc.students) |->
                   LET v == acc.students[i]
                   IN  [student_id |-> v.key, name |-> v.name,
                        present |-> v.present, total |-> v.total,
                        percentage |-> Percentage(v.present, v.total)]]
      days == SortedItems(acc.daily)
  IN  [students |-> result,
       defaulters |-> SelectSeq(result, LAMBDA r : IsDefaulter(r, defaulter_threshold)),
       daily_rates |-> [i \in 1..Len(days) |->
                          [date |-> days[i].key, present |-> days[i].present,
                           total |-> days[i].total,
                           rate |-> Percentage(days[i].present, days[i].total)]]]

\* analyze without line 88
AnalyzeNoDedup(records, defaulter_threshold) == Summarize(records, defaulter_threshold)

\* analyze(records, defaulter_threshold)
Analyze(records, defaulter_threshold) ==
  Summarize(DeduplicateRecords(records), defaulter_threshold)

(***************************************************************************)
(* Inputs.                                                                 *)
(***************************************************************************)
\* what the menu's option 1 is given
AppendSids == {<<"S", "1">>,
              <<" ", "S", "2">>}

AppendNames == {<<" ", "A", "l", " ">>}

\* two dates in several spellings, and strings that are no date
AppendDates == {<<"2", "0", "2", "4", "-", "0", "1", "-", "0", "5">>,
                <<"2", "0", "2", "4", "-", "1", "-", "5">>,
                <<"2", "0", "2", "4", "-", "0", "1", "-", " ", "5">>,
                <<" ", "2", "0", "2", "4", "-", "0", "2", "-", "2", "9", " ">>,
                <<"2", "0", "2", "3", "-", "0", "2", "-", "2", "9">>,
                <<"2", "0", "2", "4", "-", "1", "3", "-", "4", "0">>,
                <<"n", "o", "t", "-", "a", "-", "d", "a", "t", "e">>,
                <<"2", "0", "2", "4", "-", "0", "1", "-", "5", "x">>,
                <<"0", "0", "0", "0", "-", "0", "1", "-", "0", "1">>}

AppendStatuses == {<<"p", "r", "e", "s", "e", "n", "t">>, <<"x">>}

\* lines a store file written outside the program may hold: clean rows,
\* rows to normalize, a short row, a row without status, a row with a surplus
\* field, invalid dates, a blank line
RawLines ==
  {<<<<"S", "1">>, <<"A", "l">>, <<"2", "0", "2", "4", "-", "0", "1", "-", "0", "5">>, <<"P">>>>,
   <<<<" ", "S", "1", " ">>, <<" ", "A", "l", " ">>, <<"2", "0", "2", "4", "-", "1", "-", "5">>, <<"a", "b", "s", "e", "n", "t">>>>,
   <<<<"S", "2">>, <<>>, <<"2", "0", "2", "4", "-", "0", "2", "-", "2", "9">>, <<"x">>>>,
   <<<<"S", "1">>, <<"B", "o">>, <<"2", "0", "2", "4", "-", "0", "2", "-", "2", "9">>, <<"A">>>>,
   <<<<"S", "2">>, <<"A", "l">>, <<"2", "0", "2", "4", "-", "1", "3", "-", "4", "0">>, <<"P">>>>,
   <<<<"S", "1">>>>,
   <<<<"S", "2">>, <<"B", "o">>, <<"2", "0", "2", "4", "-", "0", "1", "-", "0", "5">>>>,
   <<<<"S", "1">>, <<"A", "l">>, <<"2", "0", "2", "4", "-", "0", "2", "-", "2", "9">>, <<"L">>, <<"e", "x", "t", "r", "a">>>>,
   <<>>}

\* records handed to deduplicate_records and analyze
FnSids == {<<"S", "1">>,
           <<"S", "2">>}

FnNames == {<<>>,
            <<"A", "l">>,
            <<"B", "o">>}

FnDates == {<<"2", "0", "2", "3", "-", "1", "2", "-", "3", "1">>,
            <<"2", "0", "2", "4", "-", "0", "1", "-", "0", "5">>,
            <<"2", "0", "2", "4", "-", "0", "1", "-", "1", "5">>,
            <<"2", "0", "2", "4", "-", "0", "2", "-", "2", "9">>}

FnStatuses == {<<"P">>,
               <<"A">>}

Rec(sid, name, date, status) ==
  [student_id |-> sid, student_name |-> name, date |-> date, status |-> status]

\* two students, one name, three dates, present or absent
AggRecords ==
  {Rec(s, <<"A", "l">>, d, st) : s \in FnSids, d \in FnDates \ {<<"2", "0", "2", "4", "-", "0", "1", "-", "1", "5">>}, st \in FnStatuses}

\* two students, no name or one of two names, two dates
NameRecords ==
  {Rec(s, n, d, <<"P">>) : s \in FnSids, n \in FnNames, d \in {<<"2", "0", "2", "4", "-", "0", "1", "-", "0", "5">>, <<"2", "0", "2", "3", "-", "1", "2", "-", "3", "1">>}}

\* one student on four dates
OneStudentRecords ==
  {Rec(<<"S", "1">>, <<"A", "l">>, d, st) : d \in FnDates, st \in FnStatuses}

\* defaulter_threshold values, in hundredths of a percent
Thresholds == {DefaultThreshold, 6667, 5000}

SeqsUpTo(S, n) == UNION {[1..k -> S] : k \in 0..n}

(***************************************************************************)
(* State.  store is the file; input is the argument of a direct call of    *)
(* deduplicate_records / analyze; out is what the last operation returned  *)
(* or printed.                                                             *)
(***************************************************************************)
NoResult == [students |-> <<>>, defaulters |-> <<>>, daily_rates |-> <<>>]

NoOut == [op |-> "none", date |-> <<>>, added |-> FALSE, diags |-> 0,
          records |-> <<>>, res |-> NoResult, thr |-> 0]

DataRows(file) == Tail(file)

\* lines 22-25: the file is created with its header
Init ==
  /\ store = <<Header>>
  /\ input = <<>>
  /\ out = NoOut

\* lines 195-198: each input().strip() of menu option 1
MenuInputs ==
  {<<Strip(sid), Strip(name), Strip(d), Strip(st)>> :
     sid \in AppendSids, name \in AppendNames, d \in AppendDates, st \in AppendStatuses}

\* lines 48-49: clean_row of the row built from the arguments, tabulated over
\* the inputs of the model
CleanedInput == [a \in MenuInputs |-> CleanRow(Rec(a[1], a[2], a[3], a[4]))]

\* append_record(student_id, name, date_s, status)
AppendRecord(student_id, name, date_s, status) ==
  LET c == CleanedInput[<<student_id, name, date_s, status>>]
  IN  /\ IF c.ok
         THEN /\ Len(DataRows(store)) < MaxRows
              /\ store' = Append(store, WriteRow(c.rec))
         ELSE store' = store
      /\ out' = [NoOut EXCEPT !.op = "append", !.date = date_s, !.added = c.ok]
      /\ input' = input

\* menu option 1
MenuAdd == \E a \in MenuInputs : AppendRecord(a[1], a[2], a[3], a[4])

\* menu option 2: read_all_records, analyze
MenuAnalyze ==
  LET r == ReadAllRecords(store)
  IN  /\ out' = [NoOut EXCEPT !.op = "analyze", !.diags = r.diags,
                              !.records = r.records,
                              !.res = Analyze(r.records, DefaultThreshold),
                              !.thr = DefaultThreshold]
      /\ UNCHANGED <<store, input>>

\* menu option 3: read_all_records, save_cleaned
MenuClean ==
  LET r == ReadAllRecords(store)
  IN  /\ store' = SaveCleaned(r.records)
      /\ out' = [NoOut EXCEPT !.op = "clean", !.diags = r.diags, !.records = r.records]
      /\ input' = input

\* menu option 4 (generate_sample_data) appends 120 rows of the form option 1
\* writes (trimmed id and name, ISO date, status P or A); option 5 ends the loop
Next == MenuAdd \/ MenuAnalyze \/ MenuClean

Spec == Init /\ [][Next]_vars

\* the file exists already (line 22) with rows written outside the program
InitStore ==
  /\ store \in {<<Header>> \o lines : lines \in SeqsUpTo(RawLines, MaxRows)}
  /\ input = <<>>
  /\ out = NoOut

\* the rows option 1 would add are among the rows the initial files hold
NextStore == MenuAnalyze \/ MenuClean

SpecStore == InitStore /\ [][NextStore]_vars

\* direct calls of the pure functions
InitFn ==
  /\ store = <<Header>>
  /\ input \in SeqsUpTo(AggRecords, MaxLen) \cup SeqsUpTo(NameRecords, MaxLen)
                 \cup SeqsUpTo(OneStudentRecords, PctLen)
  /\ out = NoOut

CallDedup ==
  /\ out' = [NoOut EXCEPT !.op = "dedup", !.records = DeduplicateRecords(input)]
  /\ UNCHANGED <<store, input>>

CallAnalyze ==
  \E thr \in Thresholds :
    /\ out' = [NoOut EXCEPT !.op = "call_analyze", !.res = Analyze(input, thr), !.thr = thr]
    /\ UNCHANGED <<store, input>>

NextFn == CallDedup \/ CallAnalyze

SpecFn == InitFn /\ [][NextFn]_vars

(***************************************************************************)
(* Properties.  The definitions below state what the operations are to     *)
(* achieve without using the loops above.                                  *)
(***************************************************************************)
\* the k-th smallest element of a set of indices
KthIndex(idx, k) == CHOOSE i \in idx : Cardinality({j \in idx : j <= i}) = k

\* the subsequence of s at the indices idx
AtIndices(s, idx) == [k \in 1..Cardinality(idx) |-> s[KthIndex(idx, k)]]

\* the indices of the records that are the first of their (student_id, date)
FirstIndices(s) ==
  {i \in 1..Len(s) :
     \A j \in 1..(i - 1) :
        ~(s[j].student_id = s[i].student_id /\ s[j].date = s[i].date)}

FirstOccurrences(s) == AtIndices(s, FirstIndices(s))

StoreKeys(rows) == {<<rows[i].student_id, rows[i].date>> : i \in 1..Len(rows)}

\* C1: a cleaning pass (menu option 3: save_cleaned(read_all_records())) over a
\* store built by append_record and save_cleaned leaves at most one row per
\* (student_id, date), and the row left for a key is the earliest row of that
\* key in the store as it was read.
C1_CleanPassKeepsEarliest ==
  [][out'.op = "clean" =>
       LET old == DictReader(store)
           new == DictReader(store')
       IN  /\ \A i, j \in 1..Len(new) :
                i < j => <<new[i].student_id, new[i].date>> # <<new[j].student_id, new[j].date>>
           /\ StoreKeys(new) = StoreKeys(old)
           /\ \A i \in 1..Len(new) :
                \E j \in 1..Len(old) :
                   /\ old[j] = new[i]
                   /\ \A k \in 1..(j - 1) :
                        <<old[k].student_id, old[k].date>> # <<new[i].student_id, new[i].date>>]_vars

\* a cleaning pass read three rows, two of one key and different, and kept two
C1_Witness ==
  /\ out.op = "clean"
  /\ Len(out.records) = 3
  /\ Len(DataRows(store)) = 2
  /\ \E i, j \in 1..3 :
       /\ i < j
       /\ out.records[i].student_id = out.records[j].student_id
       /\ out.records[i].date = out.records[j].date
       /\ out.records[i] # out.records[j]

\* the calendar, stated apart from the parser
MonthDays == <<31, 28, 31, 30, 31, 30, 31, 31, 30, 31, 30, 31>>

LeapYear(y) == (y % 4 = 0 /\ y % 100 # 0) \/ y % 400 = 0

\* the years of the dates the model's inputs spell (year 0 is no year)
ModelYears == 2023..2024

CalendarDates ==
  {<<y, m, d>> \in ModelYears \X (1..12) \X (1..31) :
     d <= (IF m = 2 /\ LeapYear(y) THEN 29 ELSE MonthDays[m])}

TwoDigits(n) == <<Digits[(n \div 10) + 1], Digits[(n % 10) + 1]>>

FourDigits(n) == TwoDigits(n \div 100) \o TwoDigits(n % 100)

\* the canonical ISO form YYYY-MM-DD of the calendar dates
CanonicalDates ==
  {FourDigits(t[1]) \o <<"-">> \o TwoDigits(t[2]) \o <<"-">> \o TwoDigits(t[3]) :
     t \in CalendarDates}

\* the ways %m and %d read a number: two digits, one digit, and for %d a
\* space and one digit
MonthSpellings(m) == {TwoDigits(m)} \cup (IF m < 10 THEN {<<Digits[m + 1]>>} ELSE {})

DaySpellings(d) ==
  {TwoDigits(d)} \cup (IF d < 10 THEN {<<Digits[d + 1]>>, <<" ", Digits[d + 1]>>} ELSE {})

\* the strings that parse as a calendar date in the format %Y-%m-%d
DateStrings ==
  UNION {{FourDigits(t[1]) \o <<"-">> \o ms \o <<"-">> \o ds :
            ms \in MonthSpellings(t[2]), ds \in DaySpellings(t[3])} : t \in CalendarDates}

\* C2: a record with an unparsable date never enters the store: clean_row fails
\* on every date string that is no calendar date in the format, append_record
\* with such a date leaves the store unchanged (and with a date string that is
\* one, adds the row), and from the header-only store on every stored row
\* carries a canonical ISO date.
C2_UnparsableDateNeverStored ==
  /\ [](\A a \in MenuInputs :
          a[3] \notin DateStrings => ~CleanRow(Rec(a[1], a[2], a[3], a[4])).ok)
  /\ [](\A i \in 1..Len(DictReader(store)) : DictReader(store)[i].date \in CanonicalDates)
  /\ [][out'.op = "append" =>
          /\ out'.added = (out'.date \in DateStrings)
          /\ ~out'.added => store' = store]_vars

\* append_record has just refused a date in a store that holds rows
C2_Witness ==
  /\ out.op = "append"
  /\ ~out.added
  /\ out.date \notin DateStrings
  /\ Len(DataRows(store)) >= 2

\* C3: every row written by append_record or save_cleaned has a status among
\* P, A, L, H: a status that reduces to no known code makes the record invalid.
C3_StoredStatusKnown ==
  \A i \in 1..Len(DictReader(store)) : DictReader(store)[i].status \in KnownStatus

\* C4: deduplicate_records returns the records that are the first of their
\* (student_id, date) key, in their original order, and applying it again
\* changes nothing.
C4_DedupFirstOccurrences ==
  out.op = "dedup" =>
    /\ out.records = FirstOccurrences(input)
    /\ DeduplicateRecords(out.records) = out.records

\* dedup([r1, r2, r3]) = [r1, r3] where r1 and r2 share a key and differ
C4_Witness ==
  /\ out.op = "dedup"
  /\ Len(input) = 3
  /\ input[1].student_id = input[2].student_id
  /\ input[1].date = input[2].date
  /\ input[1] # input[2]
  /\ input[3].date # input[1].date
  /\ out.records = <<input[1], input[3]>>

InputSids == {input[i].student_id : i \in 1..Len(input)}

InputDates == {input[i].date : i \in 1..Len(input)}

\* the first record of the input for a student on a date
FirstRecord(sid, date) ==
  input[CHOOSE i \in 1..Len(input) :
          /\ input[i].student_id = sid /\ input[i].date = date
          /\ \A j \in 1..(i - 1) : ~(input[j].student_id = sid /\ input[j].date = date)]

DatesOf(sid) == {input[i].date : i \in {j \in 1..Len(input) : input[j].student_id = sid}}

SidsOn(date) == {input[i].student_id : i \in {j \in 1..Len(input) : input[j].date = date}}

\* C5: analyze works on deduplicated data: students has one entry for each
\* student_id of the input and no other, total is the number of distinct dates
\* of that student (never 0), present is the number of those dates whose first
\* record has status P, and analyze(x) = analyze(dedup(x)).
C5_AnalyzeCountsDistinctDates ==
  out.op = "call_analyze" =>
    LET S == out.res.students
    IN  /\ Len(S) = Cardinality(InputSids)
        /\ {S[i].student_id : i \in 1..Len(S)} = InputSids
        /\ \A i \in 1..Len(S) :
             /\ S[i].total = Cardinality(DatesOf(S[i].student_id))
             /\ S[i].total > 0
             /\ S[i].present =
                  Cardinality({d \in DatesOf(S[i].student_id) :
                                 FirstRecord(S[i].student_id, d).status = <<"P">>})
        /\ out.res = Analyze(FirstOccurrences(input), out.thr)

\* the input (S1, Al, d1, P), (S1, Al, d1, P), (S1, Al, d2, A) gives
\* S1: present 1, total 2, 50.00, a defaulter at 75
C5_Witness ==
  /\ out.op = "call_analyze"
  /\ out.thr = DefaultThreshold
  /\ Len(input) = 3
  /\ input[1] = input[2]
  /\ input[1].status = <<"P">>
  /\ input[3].student_id = input[1].student_id
  /\ input[3].date # input[1].date
  /\ input[3].status = <<"A">>
  /\ out.res.students = <<[student_id |-> input[1].student_id, name |-> input[1].student_name,
                           present |-> 1, total |-> 2, percentage |-> 5000]>>
  /\ out.res.defaulters = out.res.students

\* round(present / total * 100, 2) < threshold, by cross-multiplication: the
\* rounded value is below the threshold T (in hundredths) iff the quotient is
\* below T - 1/2, or is T - 1/2 and rounds down to the even T - 1
BelowThreshold(present, total, T) ==
  \/ 2 * 10000 * present < (2 * T - 1) * total
  \/ 2 * 10000 * present = (2 * T - 1) * total /\ (T - 1) % 2 = 0

\* C6: defaulters is exactly the student summaries whose percentage
\* (present / total x 100, carried to two decimals) is strictly below
\* defaulter_threshold; at the default threshold 75 that is present / total
\* below 3/4: 3 present of 4 is 75.00 and no defaulter, 0 present is 0.00 and
\* a defaulter.
C6_DefaultersStrictlyBelow ==
  out.op = "call_analyze" =>
    LET S == out.res.students
        D == out.res.defaulters
    IN  /\ D = SelectSeq(S, LAMBDA s : BelowThreshold(s.present, s.total, out.thr))
        /\ \A i \in 1..Len(S) :
             \* percentage is present / total x 100 to the nearest hundredth
             /\ 2 * (10000 * S[i].present - S[i].percentage * S[i].total) <= S[i].total
             /\ 2 * (S[i].percentage * S[i].total - 10000 * S[i].present) <= S[i].total
             /\ (S[i].present = 3 /\ S[i].total = 4) => S[i].percentage = 7500
             /\ S[i].present = 0 => S[i].percentage = 0
             /\ out.thr = DefaultThreshold =>
                  ((\E k \in 1..Len(D) : D[k] = S[i]) <=> 4 * S[i].present < 3 * S[i].total)

\* a student present on 3 dates of 4 is no defaulter at the default threshold
C6_Witness ==
  /\ out.op = "call_analyze"
  /\ out.thr = DefaultThreshold
  /\ Len(out.res.students) = 1
  /\ out.res.students[1].present = 3
  /\ out.res.students[1].total = 4
  /\ out.res.students[1].percentage = 7500
  /\ out.res.defaulters = <<>>

\* the day number of an ISO date string, for the chronological order
DayNumber(s) == LET p == StrpTime(s) IN p.y * 10000 + p.m * 100 + p.d

\* C7: for an input in any order, daily_rates has one entry for each date of
\* the input and no other, in strictly ascending date order, and each entry
\* counts the deduplicated records of its date.
C7_DailyRatesAscending ==
  out.op = "call_analyze" =>
    LET R == out.res.daily_rates
    IN  /\ Len(R) = Cardinality(InputDates)
        /\ {R[i].date : i \in 1..Len(R)} = InputDates
        /\ \A i, j \in 1..Len(R) :
             i < j => /\ StrLess(R[i].date, R[j].date)
                      /\ DayNumber(R[i].date) < DayNumber(R[j].date)
        /\ \A i \in 1..Len(R) :
             /\ R[i].total = Cardinality(SidsOn(R[i].date))
             /\ R[i].present =
                  Cardinality({s \in SidsOn(R[i].date) :
                                 FirstRecord(s, R[i].date).status = <<"P">>})

\* three dates arrive latest first and leave earliest first
C7_Witness ==
  /\ out.op = "call_analyze"
  /\ Len(input) = 3
  /\ StrLess(input[3].date, input[2].date)
  /\ StrLess(input[2].date, input[1].date)
  /\ Len(out.res.daily_rates) = 3
  /\ out.res.daily_rates[1].date = input[3].date
  /\ out.res.daily_rates[3].date = input[1].date

\* C9: a student's name in the output of analyze is the name of the first
\* record the accumulation meets (the deduplicated records, in order) for that
\* student_id with a non-empty name, whatever later records say, and is empty
\* only if none of them has one.
C9_NameFirstNonEmpty ==
  out.op = "call_analyze" =>
    LET S == out.res.students
        met == FirstOccurrences(input)
    IN  \A i \in 1..Len(S) :
          LET named == {j \in 1..Len(met) :
                          met[j].student_id = S[i].student_id /\ met[j].student_name # <<>>}
          IN  IF named = {} THEN S[i].name = <<>>
              ELSE S[i].name = met[CHOOSE j \in named : \A k \in named : j <= k].student_name

\* a student whose first record has no name and whose later records carry
\* two different names
C9_Witness ==
  /\ out.op = "call_analyze"
  /\ Len(input) = 3
  /\ input[1].student_id = input[2].student_id
  /\ input[2].student_id = input[3].student_id
  /\ input[1].student_name = <<>>
  /\ input[2].student_name # <<>>
  /\ input[3].student_name # <<>>
  /\ input[2].student_name # input[3].student_name
  /\ input[3].date # input[1].date
  /\ Len(out.res.students) = 1
  /\ out.res.students[1].name # <<>>

\* what read_all_records is to return on a file: the normalized rows that
\* clean_row accepts, in file order
AcceptedRows(file) ==
  LET rows == DictReader(file)
      good == SelectSeq(rows, LAMBDA r : CleanRow(r).ok)
  IN  [i \in 1..Len(good) |-> CleanRow(good[i]).rec]

RejectedCount(file) ==
  Cardinality({i \in 1..Len(DictReader(file)) : ~CleanRow(DictReader(file)[i]).ok})

\* C8: read_all_records completes on every stored sequence of rows: it returns
\* the normalized forms of exactly the rows clean_row accepts, in file order,
\* prints one diagnostic for each row it skips, goes on after a bad row, and
\* leaves the store as it was.
C8_ReadIsolatesBadRows ==
  [][out'.op \in {"analyze", "clean"} =>
        /\ out'.records = AcceptedRows(store)
        /\ out'.diags = RejectedCount(store)
        /\ out'.op = "analyze" => store' = store]_vars

\* a read skipped a bad row and returned a row that stands after it
C8_Witness ==
  /\ out.op = "analyze"
  /\ out.diags >= 1
  /\ \E i, j \in 1..Len(DictReader(store)) :
       /\ i < j
       /\ ~CleanRow(DictReader(store)[i]).ok
       /\ CleanRow(DictReader(store)[j]).ok
       /\ out.records[Len(out.records)] = CleanRow(DictReader(store)[j]).rec

\* analyze(read_all_records()) on a file, as menu option 2 computes it
AnalysisOf(file) == Analyze(ReadAllRecords(file).records, DefaultThreshold)

\* C10: a cleaning pass does not change what analyze reports on the store
\* (students, defaulters, daily_rates), and a cleaning pass right after a
\* cleaning pass leaves the store as the first left it.
C10_CleanPassKeepsAnalysis ==
  /\ [][out'.op = "clean" => AnalysisOf(store') = AnalysisOf(store)]_vars
  /\ [][out.op = "clean" /\ out'.op = "clean" => store' = store]_vars
  /\ [](out.op = "clean" => SaveCleaned(ReadAllRecords(store).records) = store)

\* a cleaning pass dropped a malformed row and a duplicate and kept rows
C10_Witness ==
  /\ out.op = "clean"
  /\ out.diags >= 1
  /\ Len(out.records) > Len(DataRows(store))
  /\ Len(DataRows(store)) >= 1
  /\ AnalysisOf(store).students # <<>>

====
